---------------------------- MODULE Spec2Model ----------------------------
(***************************************************************************)
(* The offline layer of the point-of-sale application:                     *)
(*                                                                         *)
(*   - OfflineManager (offline-manager.js, src/unnamed/part_008): the      *)
(*     page-side queue of pending transactions kept in memory and in       *)
(*     localStorage, and its drain, syncNow;                               *)
(*   - the queueing service worker (service-worker.js v2,                  *)
(*     src/unnamed/part_009): the IndexedDB queue of failed writes and     *)
(*     its drain, syncQueuedRequests;                                      *)
(*   - the cache lifecycle of the service workers (src/sw.js and           *)
(*     src/unnamed/part_009): install, activate, CLEAR_CACHE.              *)
(*                                                                         *)
(* One step of the model is one run of JavaScript between two suspension   *)
(* points that let another task in (an awaited network call, an event, a   *)
(* timer, a message).                                                      *)
(***************************************************************************)
EXTENDS Integers, Sequences, FiniteSets, TLC

VARIABLES
    \* ---- OfflineManager (page) ----
    isOnline,            \* this.isOnline
    queuedTransactions,  \* this.queuedTransactions
    syncInProgress,      \* this.syncInProgress
    storage,             \* localStorage[OFFLINE_STORAGE_KEY]: the JSON text, or absent
    timerPending,        \* the setTimeout(() => this.syncNow(), 2000) of init()
    drains,              \* the suspended syncNow calls
    nextId,              \* the next id queueTransaction hands out
    last,                \* the handler that ran last, and what it did
    log,                 \* syncTransaction calls and their settling, in the pass under way
    failsOf,             \* per entry: completed drain passes in which its replay threw
    succeededIds,        \* entries whose replay has returned normally
    evictedIds,          \* entries removed because attempts reached the ceiling
    \* ---- queueing service worker (service-worker.js v2) ----
    idb,                 \* the object store 'pending-transactions', in key order
    idbNextKey,          \* the key autoIncrement hands out next
    swRuns,              \* the suspended syncQueuedRequests calls
    swLast,              \* the worker handler that ran last, and what it did
    okReplays,           \* per stored entry: replays the backend has accepted
    \* ---- Cache Storage and the worker's life cycle (all three worker scripts) ----
    caches,              \* the origin's CacheStorage: per name, absent or its entries
    swVersion,           \* the version string of the newest worker of the scope
    lifecycle,           \* that worker: none, installed, activating, activated
    pendingDeletes,      \* the caches.delete calls of the activate handler still to run
    cachesAtActivate,    \* CacheStorage as the last activate handler found it, kept
                         \* until the worker handles an event
    active,              \* the version of the worker that handles events, or none
    pendingPuts,         \* cache.put calls a fetch listener started and did not await
    rLast,               \* the cache-side handler that ran last, and its answer
    gets,                \* GET requests the fetch listeners have answered
    \* ---- the backend the data module writes to ----
    sales,               \* per queue entry: rows its replays inserted into sales
    stock,               \* per product: products.stock
    written,             \* entries whose data-module call returned {success: true}
    \* ---- a second tab of the application on the same origin ----
    otherQueue           \* this.queuedTransactions of the OfflineManager of that tab

pageVars == <<isOnline, queuedTransactions, syncInProgress, storage, timerPending, drains, nextId, last, log, failsOf,
              succeededIds, evictedIds>>

swVars == <<idb, idbNextKey, swRuns, swLast, okReplays>>

cacheVars == <<caches, swVersion, lifecycle, pendingDeletes, cachesAtActivate,
               active, pendingPuts, rLast, gets>>

backendVars == <<sales, stock, written>>

tabVars == <<otherQueue>>

vars == <<pageVars, swVars, cacheVars, backendVars, tabVars>>

-----------------------------------------------------------------------------
(* Bounds of the model *)

\* queueTransaction calls in one behaviour
MaxEnq == 3
\* syncNow calls that can be suspended at once (the guard allows one)
MaxDrains == 2
\* replays that throw in one behaviour
MaxFails == 5
\* failed writes the service worker is asked to queue in one behaviour
MaxSwEnq == 2
\* syncQueuedRequests calls that can be suspended at once
MaxSwRuns == 2

\* the same three caps where the page and the service worker run side by side
SysEnq == 1
SysSwEnq == 1
SysSwRuns == 1
\* entries of each queue where the drains of the page and of the service
\* worker run side by side
DrainEnq == 2
DrainSwEnq == 2
\* entries replayed against the backend
BackendEnq == 2
\* entries queued where replays may fail without end
LiveEnq == 2
\* cache.put calls that can be under way at once
MaxPuts == 1
\* GET requests the fetch listeners answer in one behaviour
MaxGets == 3

-----------------------------------------------------------------------------
(* Program constants *)

\* the ceiling of transaction.attempts in syncNow
MaxAttempts == 5

\* the cases of the switch in syncTransaction that this model draws from
Kinds == {"sale", "product"}

\* payloads: a sale carries its header and items, a product its optional id
Payloads(type) ==
    IF type = "sale"
    THEN {[sale |-> "header", items |-> <<"p1">>]}
    ELSE {[id |-> "p1", name |-> "n"]}

-----------------------------------------------------------------------------
(* JSON text of the queue: JSON.stringify and JSON.parse *)

\* a number as JSON writes it: its decimal digits
RECURSIVE NumToDigits(_)
NumToDigits(n) ==
    IF n < 10 THEN <<n>> ELSE NumToDigits(n \div 10) \o <<n % 10>>

RECURSIVE DigitsToNum(_)
DigitsToNum(d) ==
    IF Len(d) = 0 THEN 0
    ELSE 10 * DigitsToNum(SubSeq(d, 1, Len(d) - 1)) + d[Len(d)]

\* one transaction object as JSON text: its members in insertion order
\* a JSON value as text: a number by its digits, anything else (the strings
\* id, type, timestamp and status, the object data) by its own text
JsonNumber(n) == [json |-> "number", text |-> NumToDigits(n)]

JsonOther(v) == [json |-> "other", text |-> v]

JsonValue(j) == IF j.json = "number" THEN DigitsToNum(j.text) ELSE j.text

StringifyEntry(t) ==
    << <<"id", JsonOther(t.id)>>,
       <<"type", JsonOther(t.type)>>,
       <<"data", JsonOther(t.data)>>,
       <<"timestamp", JsonOther(t.timestamp)>>,
       <<"attempts", JsonNumber(t.attempts)>>,
       <<"status", JsonOther(t.status)>> >>

Member(j, key) == JsonValue(j[CHOOSE k \in DOMAIN j : j[k][1] = key][2])

\* a parser that starts every entry again at attempts 0
ParseEntryResetAttempts(j) ==
    [id        |-> Member(j, "id"),
     type      |-> Member(j, "type"),
     data      |-> Member(j, "data"),
     timestamp |-> Member(j, "timestamp"),
     attempts  |-> 0,
     status    |-> Member(j, "status")]

ParseEntry(j) ==
    [id        |-> Member(j, "id"),
     type      |-> Member(j, "type"),
     data      |-> Member(j, "data"),
     timestamp |-> Member(j, "timestamp"),
     attempts  |-> Member(j, "attempts"),
     status    |-> Member(j, "status")]

Stringify(q) == [k \in DOMAIN q |-> StringifyEntry(q[k])]

Parse(text) == [k \in DOMAIN text |-> ParseEntry(text[k])]

\* localStorage.getItem returns null for a key never set
NoItem == [present |-> FALSE, text |-> <<>>]

\* saveQueue: localStorage.setItem(KEY, JSON.stringify(queue)); the write is
\* taken to succeed (the catch branch only logs)
SaveQueue(q) == [present |-> TRUE, text |-> Stringify(q)]

\* loadQueue: stored ? JSON.parse(stored) : []
LoadQueue(item) == IF item.present THEN Parse(item.text) ELSE <<>>


-----------------------------------------------------------------------------
(* OfflineManager: helpers *)

Ids == 1..MaxEnq

\* a suspended syncNow: the snapshot [...this.queuedTransactions] it walks, the
\* position i of the transaction whose syncTransaction it awaits, and its
\* counters.  aliased says that the objects of the snapshot are still the
\* objects held by this.queuedTransactions (loadQueue replaces them by new ones);
\* thrown remembers the entries whose replay threw in this pass
IdleDrain ==
    [active |-> FALSE, snap |-> <<>>, i |-> 0, aliased |-> FALSE,
     successCount |-> 0, failCount |-> 0, thrown |-> {}]

NoReport == [delivered |-> FALSE, succeeded |-> 0, failed |-> 0]

\* last, after a handler that is no call of syncNow
NoCall == [outcome |-> "none", report |-> NoReport]

ActiveDrains == {s \in DOMAIN drains : drains[s].active}

\* a filter with its test inverted: t => t.id === id
FilterKeepOnly(q, id) ==
    IF \E k \in DOMAIN q : q[k].id = id
    THEN <<q[CHOOSE k \in DOMAIN q : q[k].id = id]>>
    ELSE <<>>

\* this.queuedTransactions.filter(t => t.id !== id)
RECURSIVE FilterOut(_, _)
FilterOut(q, id) ==
    IF Len(q) = 0 THEN <<>>
    ELSE IF Head(q).id = id THEN FilterOut(Tail(q), id)
    ELSE <<Head(q)>> \o FilterOut(Tail(q), id)

QueueIds(q) == {q[k].id : k \in DOMAIN q}

RECURSIVE SumFails(_)
SumFails(ids) ==
    IF ids = {} THEN 0
    ELSE LET e == CHOOSE x \in ids : TRUE IN failsOf[e] + SumFails(ids \ {e})

\* replays that have thrown in completed passes, over all entries
TotalFails == SumFails(Ids)

\* syncNow without the test of this.syncInProgress
SyncNowGuardNoBusyTest(busy, online, len) ==
    IF ~online THEN "offline"
    ELSE IF len = 0 THEN "empty"
    ELSE "start"

\* syncNow without the test of an empty queue
SyncNowGuardNoEmptyTest(busy, online, len) ==
    IF busy THEN "busy"
    ELSE IF ~online THEN "offline"
    ELSE "start"

\* the guard of syncNow: what the call does before it touches anything
SyncNowGuard(busy, online, len) ==
    IF busy THEN "busy"
    ELSE IF ~online THEN "offline"
    ELSE IF len = 0 THEN "empty"
    ELSE "start"

\* a loop that walks the queue from its newest entry
SnapshotNewestFirst(q) == [k \in DOMAIN q |-> q[Len(q) + 1 - k]]

\* the snapshot the for-of loop walks: a copy of the array, same objects
Snapshot(q) == q

\* a pass that returns with the flag as the loop left it
SyncInProgressLeftSet == TRUE

\* this.syncInProgress = false, after the loop and saveQueue
SyncInProgressAfterPass == FALSE

\* a loop over the entries that a failed replay ends
LoopStopsOnThrow(i, len, throws) == i < len /\ ~throws

\* the loop of syncNow, and of syncQueuedRequests, has another entry to
\* replay: the catch block neither breaks nor rethrows
LoopGoesOn(i, len, throws) == i < len

\* syncTransaction(t) rejects: the sale branch throws when createSale reports
\* a failure; syncProduct returns whatever the data module returned
SyncTransactionThrows(t, backend) ==
    t.type = "sale" /\ backend = "fail"

\* the ceiling test of the catch branch, after transaction.attempts++
TooManyAttempts(attempts) == attempts >= MaxAttempts

\* the notification at the end of syncNow
SyncReport(successCount, failCount) ==
    IF successCount > 0 \/ failCount > 0
    THEN [delivered |-> TRUE, succeeded |-> successCount, failed |-> failCount]
    ELSE NoReport

\* transaction.attempts++ seen through every reference to the same object
BumpAttempts(q, id, n) ==
    [k \in DOMAIN q |-> IF q[k].id = id THEN [q[k] EXCEPT !.attempts = n] ELSE q[k]]

-----------------------------------------------------------------------------
(* OfflineManager: syncNow *)

\* the page's handlers touch nothing of the service worker
NotPage == UNCHANGED <<swVars, cacheVars, backendVars, tabVars>>

\* async syncNow(), from the call to its first suspension (or to its return)
SyncNow(online) ==
    LET g == SyncNowGuard(syncInProgress, online, Len(queuedTransactions))
        free == {s \in DOMAIN drains : ~drains[s].active}
        snap == Snapshot(queuedTransactions)
    IN  IF g # "start"
        THEN /\ last' = [outcome |-> g, report |-> NoReport]
             /\ UNCHANGED <<syncInProgress, drains, log, storage>>
        ELSE IF Len(snap) = 0
        THEN \* the loop body never runs: no await, the call runs to its end
             /\ storage' = SaveQueue(queuedTransactions)
             /\ syncInProgress' = SyncInProgressAfterPass
             /\ last' = [outcome |-> "complete", report |-> SyncReport(0, 0)]
             /\ UNCHANGED <<drains, log>>
        ELSE /\ free # {}
             /\ LET s == CHOOSE x \in free : \A y \in free : x <= y
                IN  /\ drains' = [drains EXCEPT ![s] =
                           [active |-> TRUE, snap |-> snap, i |-> 1,
                            aliased |-> TRUE, successCount |-> 0, failCount |-> 0,
                            thrown |-> {}]]
                    /\ log' = (IF ActiveDrains = {} THEN <<>> ELSE log)
                                \o << <<"start", s, snap[1].id>> >>
             /\ syncInProgress' = TRUE
             /\ last' = NoCall
             /\ UNCHANGED storage

\* the awaited syncTransaction of drain s settles; the loop runs on to the next
\* await, or to the end of syncNow
Replay(s, backend, budget) ==
    /\ drains[s].active
    /\ LET d == drains[s]
           t == d.snap[d.i]
           throws == SyncTransactionThrows(t, backend)
           n == t.attempts + 1
           evict == throws /\ TooManyAttempts(n)
           q1 == IF throws /\ d.aliased
                 THEN BumpAttempts(queuedTransactions, t.id, n)
                 ELSE queuedTransactions
           q2 == IF ~throws \/ evict THEN FilterOut(q1, t.id) ELSE q1
           sc == IF throws THEN d.successCount ELSE d.successCount + 1
           fc == IF throws THEN d.failCount + 1 ELSE d.failCount
           th == IF throws THEN d.thrown \cup {t.id} ELSE d.thrown
           more == LoopGoesOn(d.i, Len(d.snap), throws)
           bumped(x) == IF throws /\ d.aliased /\ x.aliased
                        THEN [x EXCEPT !.snap = BumpAttempts(x.snap, t.id, n)]
                        ELSE x
       IN  /\ throws /\ budget => TotalFails + Cardinality(d.thrown) < MaxFails
           /\ queuedTransactions' = q2
           /\ succeededIds' = IF throws THEN succeededIds ELSE succeededIds \cup {t.id}
           /\ evictedIds' = IF evict THEN evictedIds \cup {t.id} ELSE evictedIds
           /\ IF more
              THEN /\ drains' = [x \in DOMAIN drains |->
                          IF x = s
                          THEN [bumped(d) EXCEPT !.i = d.i + 1,
                                                 !.successCount = sc,
                                                 !.failCount = fc,
                                                 !.thrown = th]
                          ELSE bumped(drains[x])]
                   /\ log' = log \o << <<"settle", s, t.id>>,
                                       <<"start", s, d.snap[d.i + 1].id>> >>
                   /\ last' = NoCall
                   /\ UNCHANGED <<storage, syncInProgress, failsOf>>
              ELSE /\ drains' = [x \in DOMAIN drains |->
                          IF x = s THEN IdleDrain ELSE bumped(drains[x])]
                   /\ log' = IF ActiveDrains = {s} THEN <<>>
                             ELSE log \o << <<"settle", s, t.id>> >>
                   /\ storage' = SaveQueue(q2)
                   /\ syncInProgress' = SyncInProgressAfterPass
                   /\ failsOf' = [e \in Ids |->
                          IF e \in th /\ (budget \/ failsOf[e] < MaxFails)
                          THEN failsOf[e] + 1 ELSE failsOf[e]]
                   /\ last' = [outcome |-> "complete", report |-> SyncReport(sc, fc)]
    /\ UNCHANGED <<isOnline, timerPending, nextId>>
    /\ UNCHANGED <<swVars, cacheVars, tabVars>>

\* the replay settles, within the budget of failures that bounds the count
\* failsOf
ReplaySettles(s, backend) ==
    Replay(s, backend, TRUE) /\ UNCHANGED backendVars

\* the replay settles, and may fail without end: failsOf stops counting at
\* MaxFails
ReplaySettlesAnyway(s, backend) ==
    Replay(s, backend, FALSE) /\ UNCHANGED backendVars

-----------------------------------------------------------------------------
(* The data module behind syncTransaction: createSale, updateInventory,    *)
(* createProduct / updateProduct, and the rows they leave at the backend   *)

\* the products the sales of the model sell, and what is in stock at first
Products == {"p1", "p2"}
InitStock == 2

\* the payloads of the entries replayed against the backend: a sale of two
\* line items, a product to create
BackendPayloads(type) ==
    IF type = "sale"
    THEN {[sale |-> "header",
           items |-> << [product_id |-> "p1", quantity |-> 1],
                        [product_id |-> "p2", quantity |-> 1] >>]}
    ELSE {[name |-> "n"]}

\* line items a sale can have
MaxItems == 2

\* what the backend answers to the writes of one replay: to the first write
\* (the insert into sales, or the product insert or update), to the insert
\* into sale_items, and to the stock update of each line item
CallResults ==
    [insert : BOOLEAN, items : BOOLEAN, inventory : [1..MaxItems -> BOOLEAN]]

\* createSale returns {success: true}: both inserts went through
CreateSaleSucceeds(c) == c.insert /\ c.items

\* the result object of the data-module call has success: true
DataModuleSucceeds(t, c) ==
    IF t.type = "sale" THEN CreateSaleSucceeds(c) ELSE c.insert

\* what syncTransaction gets back from the data module
BackendAnswer(t, c) == IF DataModuleSucceeds(t, c) THEN "ok" ELSE "fail"

\* createSale: the sales row is inserted before sale_items, and stays when
\* the second insert fails
SalesAfter(rows, t, c) ==
    IF t.type = "sale" /\ c.insert THEN [rows EXCEPT ![t.id] = @ + 1] ELSE rows

\* updateInventory(product_id, quantity, 'subtract')
Subtract(st, item) ==
    [st EXCEPT ![item.product_id] =
        IF @ - item.quantity < 0 THEN 0 ELSE @ - item.quantity]

\* a loop that applies the stock updates of a sale together or not at all
RECURSIVE UpdateInventoryAllOrNothing(_, _, _)
UpdateInventoryAllOrNothing(st, items, inv) ==
    IF Len(items) = 0 THEN st
    ELSE IF \E k \in DOMAIN inv : ~inv[k] THEN st
    ELSE UpdateInventoryAllOrNothing(Subtract(st, Head(items)), Tail(items),
                                     Tail(inv))

\* the loop of syncSale over saleData.items: a failed updateInventory returns
\* {success: false}, which the loop does not read
RECURSIVE UpdateInventory(_, _, _)
UpdateInventory(st, items, inv) ==
    IF Len(items) = 0 THEN st
    ELSE UpdateInventory(IF Head(inv) THEN Subtract(st, Head(items)) ELSE st,
                         Tail(items), Tail(inv))

\* products.stock after syncSale
StockAfter(st, t, c) ==
    IF t.type = "sale" /\ CreateSaleSucceeds(c)
    THEN UpdateInventory(st, t.data.items,
                         [k \in 1..Len(t.data.items) |-> c.inventory[k]])
    ELSE st

\* the awaited syncTransaction of drain s settles after its calls to the data
\* module were answered as c says
ReplayAtBackend(s, c) ==
    /\ drains[s].active
    /\ LET t == drains[s].snap[drains[s].i]
       IN  /\ Replay(s, BackendAnswer(t, c), TRUE)
           /\ sales' = SalesAfter(sales, t, c)
           /\ stock' = StockAfter(stock, t, c)
           /\ written' = IF DataModuleSucceeds(t, c)
                         THEN written \cup {t.id} ELSE written

-----------------------------------------------------------------------------
(* OfflineManager: the handlers *)

\* window 'online'
OnlineEvent ==
    /\ ~isOnline
    /\ isOnline' = TRUE
    /\ SyncNow(TRUE)
    /\ UNCHANGED <<queuedTransactions, timerPending, nextId,
                   failsOf, succeededIds, evictedIds>>
    /\ NotPage

\* window 'offline'
OfflineEvent ==
    /\ isOnline
    /\ isOnline' = FALSE
    /\ last' = NoCall
    /\ UNCHANGED <<queuedTransactions, syncInProgress, storage,
                   timerPending, drains, nextId, log, failsOf, succeededIds,
                   evictedIds>>
    /\ NotPage

\* document 'visibilitychange', the tab shown
VisibilityChange ==
    /\ IF isOnline /\ Len(queuedTransactions) > 0
       THEN SyncNow(isOnline)
       ELSE /\ last' = NoCall
            /\ UNCHANGED <<syncInProgress, drains, log, storage>>
    /\ UNCHANGED <<isOnline, queuedTransactions, timerPending,
                   nextId, failsOf, succeededIds, evictedIds>>
    /\ NotPage

\* the timer init() sets when the page starts online
StartupTimer ==
    /\ timerPending
    /\ timerPending' = FALSE
    /\ SyncNow(isOnline)
    /\ UNCHANGED <<isOnline, queuedTransactions, nextId,
                   failsOf, succeededIds, evictedIds>>
    /\ NotPage

\* window.offlineManager.syncNow() called by the page
ManualSync ==
    /\ SyncNow(isOnline)
    /\ UNCHANGED <<isOnline, queuedTransactions, timerPending,
                   nextId, failsOf, succeededIds, evictedIds>>
    /\ NotPage

\* queueTransaction(type, data)
QueueTransaction(type, data) ==
    /\ nextId <= MaxEnq
    /\ LET transaction == [id |-> nextId, type |-> type, data |-> data,
                           timestamp |-> nextId, attempts |-> 0,
                           status |-> "pending"]
           q == Append(queuedTransactions, transaction)
       IN  /\ queuedTransactions' = q
           /\ storage' = SaveQueue(q)
    /\ nextId' = nextId + 1
    /\ last' = NoCall
    /\ UNCHANGED <<isOnline, syncInProgress, timerPending,
                   drains, log, failsOf, succeededIds, evictedIds>>
    /\ NotPage

\* handleServiceWorkerMessage(data)
HandleServiceWorkerMessage(type) ==
    /\ IF type = "SYNC_COMPLETE"
       THEN /\ queuedTransactions' = LoadQueue(storage)
            /\ drains' = [s \in DOMAIN drains |-> [drains[s] EXCEPT !.aliased = FALSE]]
       ELSE UNCHANGED <<queuedTransactions, drains>>
    /\ last' = NoCall
    /\ UNCHANGED <<isOnline, syncInProgress, storage,
                   timerPending, nextId, log, failsOf, succeededIds, evictedIds>>
    /\ NotPage

\* the page is loaded again: new OfflineManager(), init()
Reload ==
    /\ queuedTransactions' = LoadQueue(storage)
    /\ syncInProgress' = FALSE
    /\ timerPending' = isOnline
    /\ drains' = [s \in DOMAIN drains |-> IdleDrain]
    /\ log' = <<>>
    /\ last' = NoCall
    /\ UNCHANGED <<isOnline, storage, nextId, failsOf, succeededIds, evictedIds>>
    /\ NotPage

-----------------------------------------------------------------------------
(* A second tab: its own OfflineManager over the same localStorage key *)

\* the tab is opened or loaded again: new OfflineManager(), loadQueue()
OtherTabLoads ==
    /\ otherQueue' = LoadQueue(storage)
    /\ UNCHANGED <<pageVars, swVars, cacheVars, backendVars>>

\* queueTransaction(type, data) in that tab: push on its own array, saveQueue
OtherTabQueues(type, data) ==
    /\ nextId <= MaxEnq
    /\ LET transaction == [id |-> nextId, type |-> type, data |-> data,
                           timestamp |-> nextId, attempts |-> 0,
                           status |-> "pending"]
           q == Append(otherQueue, transaction)
       IN  /\ otherQueue' = q
           /\ storage' = SaveQueue(q)
    /\ nextId' = nextId + 1
    /\ UNCHANGED <<isOnline, queuedTransactions, syncInProgress, timerPending,
                   drains, last, log, failsOf, succeededIds, evictedIds>>
    /\ UNCHANGED <<swVars, cacheVars, backendVars>>

-----------------------------------------------------------------------------
(* The queueing service worker: requests and responses *)

\* the write requests the page makes: to the data API, to the payment API
\* (another origin) and to the application's own origin
WriteRequests ==
    { [host |-> "project.supabase.co", url |-> "/rest/v1/sales",
       method |-> "POST", headers |-> "json", body |-> "sale"],
      [host |-> "project.supabase.co", url |-> "/rest/v1/products",
       method |-> "PATCH", headers |-> "json", body |-> "product"],
      [host |-> "api.intasend.com", url |-> "/api/v1/payment",
       method |-> "POST", headers |-> "json", body |-> "stk"],
      [host |-> "origin", url |-> "/functions/v1/notify",
       method |-> "POST", headers |-> "json", body |-> "note"] }

NoRequest ==
    [host |-> "none", url |-> "", method |-> "", headers |-> "", body |-> ""]

\* url.hostname.includes('supabase.co')
IsSupabase(req) == req.host = "project.supabase.co"

\* request.url.startsWith(self.location.origin)
IsSameOrigin(req) == req.host = "origin"

\* what the page gets back: a response, or the rejection of its fetch
NetworkError ==
    [status |-> 0, from |-> "error", success |-> FALSE, queued |-> FALSE,
     offline |-> FALSE]

NetworkResponse(net) ==
    [status |-> IF net = "ok" THEN 200 ELSE 500, from |-> "network",
     success |-> net = "ok", queued |-> FALSE, offline |-> FALSE]

\* new Response(JSON.stringify({success, queued, offline, message}), {status: 202})
QueuedResponse ==
    [status |-> 202, from |-> "worker", success |-> TRUE, queued |-> TRUE,
     offline |-> TRUE]

\* new Response('Offline', { status: 503 })
OfflineResponse ==
    [status |-> 503, from |-> "worker", success |-> FALSE, queued |-> FALSE,
     offline |-> FALSE]

NoMessage == [type |-> "none", success |-> 0, failed |-> 0, total |-> 0]

SwIdle == [op |-> "none", req |-> NoRequest, net |-> "none", outcome |-> "none",
           response |-> NetworkError, added |-> 0, msg |-> NoMessage]

\* a suspended syncQueuedRequests: the arrays allRequests / allKeys it read, the
\* index i of the request whose fetch it awaits, and its counters
IdleRun == [active |-> FALSE, snap |-> <<>>, i |-> 0, successCount |-> 0,
            failCount |-> 0]

ActiveRuns == {r \in DOMAIN swRuns : swRuns[r].active}

\* the record queueRequest stores, under the key autoIncrement gives it
RequestData(key, req) ==
    [key |-> key, url |-> req.url, method |-> req.method,
     headers |-> req.headers, body |-> req.body, timestamp |-> key]

\* deleteStore.delete(key)
RECURSIVE IdbDelete(_, _)
IdbDelete(store, key) ==
    IF Len(store) = 0 THEN <<>>
    ELSE IF Head(store).key = key THEN IdbDelete(Tail(store), key)
    ELSE <<Head(store)>> \o IdbDelete(Tail(store), key)

\* queueRequest(request): the store after it; an IndexedDB error is caught and
\* logged, and the store is as before
QueueRequest(store, key, req, idbOk) ==
    IF idbOk THEN Append(store, RequestData(key, req)) ELSE store

\* the events that call syncQueuedRequests, and a sync event of another tag
SyncTriggers ==
    {"sync:sync-offline-queue", "sync:sync-sales", "sync:other",
     "periodicsync:check-sync-queue", "periodicsync:other",
     "message:SYNC_NOW", "online"}

\* the tag tests of the sync and periodicsync listeners
CallsSync(trigger) == trigger \notin {"sync:other", "periodicsync:other"}

\* response.ok of the replayed request; a rejected fetch goes to the catch
ReplayOk(net) == net = "ok"

-----------------------------------------------------------------------------
(* The queueing service worker: handlers *)

\* the handlers of the write queue touch neither the page nor the caches
NotWorker == UNCHANGED <<pageVars, cacheVars, backendVars, tabVars>>

\* the fetch listener for a request that is not a GET
FetchNonGet(req, net, idbOk) ==
    /\ IF ~IsSameOrigin(req) /\ ~IsSupabase(req)
       THEN \* not intercepted: the browser's own fetch answers the page
            /\ swLast' = [SwIdle EXCEPT !.op = "fetch", !.req = req, !.net = net,
                   !.outcome = "passed",
                   !.response = IF net = "fail" THEN NetworkError
                                ELSE NetworkResponse(net)]
            /\ UNCHANGED <<idb, idbNextKey>>
       ELSE IF IsSupabase(req)
       THEN IF net # "fail"
            THEN /\ swLast' = [SwIdle EXCEPT !.op = "fetch", !.req = req,
                        !.net = net, !.outcome = "sent",
                        !.response = NetworkResponse(net)]
                 /\ UNCHANGED <<idb, idbNextKey>>
            ELSE /\ idbOk => idbNextKey <= MaxSwEnq
                 /\ idb' = QueueRequest(idb, idbNextKey, req, idbOk)
                 /\ idbNextKey' = IF idbOk THEN idbNextKey + 1 ELSE idbNextKey
                 /\ swLast' = [SwIdle EXCEPT !.op = "fetch", !.req = req,
                        !.net = net, !.outcome = "queued",
                        !.response = QueuedResponse,
                        !.added = Len(idb') - Len(idb),
                        !.msg = IF idbOk
                                THEN [NoMessage EXCEPT !.type = "TRANSACTION_QUEUED"]
                                ELSE NoMessage]
       ELSE \* same origin: the cache-first branch; a cache holds no answer to
            \* a request that is not a GET
            /\ swLast' = [SwIdle EXCEPT !.op = "fetch", !.req = req, !.net = net,
                   !.outcome = "static",
                   !.response = IF net = "fail" THEN OfflineResponse
                                ELSE NetworkResponse(net)]
            /\ UNCHANGED <<idb, idbNextKey>>
    /\ UNCHANGED <<swRuns, okReplays>>
    /\ NotWorker

\* a sync, periodicsync, message or online event: syncQueuedRequests() from
\* the call to its first awaited fetch (or to its return)
SwSync(trigger, idbOk) ==
    /\ IF ~CallsSync(trigger)
       THEN /\ swLast' = [SwIdle EXCEPT !.op = "sync", !.outcome = "ignored"]
            /\ UNCHANGED swRuns
       ELSE IF ~idbOk
       THEN \* openDB rejects: the outer catch logs it
            /\ swLast' = [SwIdle EXCEPT !.op = "sync", !.outcome = "error"]
            /\ UNCHANGED swRuns
       ELSE IF Len(idb) = 0
       THEN /\ swLast' = [SwIdle EXCEPT !.op = "sync", !.outcome = "empty"]
            /\ UNCHANGED swRuns
       ELSE LET free == {r \in DOMAIN swRuns : ~swRuns[r].active}
            IN  /\ free # {}
                /\ LET r == CHOOSE x \in free : \A y \in free : x <= y
                   IN  swRuns' = [swRuns EXCEPT ![r] =
                           [active |-> TRUE, snap |-> idb, i |-> 1,
                            successCount |-> 0, failCount |-> 0]]
                /\ swLast' = [SwIdle EXCEPT !.op = "sync", !.outcome = "started"]
    /\ UNCHANGED <<idb, idbNextKey, okReplays>>
    /\ NotWorker

\* the awaited fetch of run r settles; the loop runs on to the next fetch, or
\* to the end of syncQueuedRequests
SwFetchSettles(r, net) ==
    /\ swRuns[r].active
    /\ LET d == swRuns[r]
           key == d.snap[d.i].key
           ok == ReplayOk(net)
           sc == IF ok THEN d.successCount + 1 ELSE d.successCount
           fc == IF ok THEN d.failCount ELSE d.failCount + 1
       IN  /\ idb' = IF ok THEN IdbDelete(idb, key) ELSE idb
           /\ okReplays' = IF net = "ok"
                           THEN [okReplays EXCEPT ![key] = @ + 1]
                           ELSE okReplays
           /\ IF LoopGoesOn(d.i, Len(d.snap), ~ok)
              THEN /\ swRuns' = [swRuns EXCEPT ![r] =
                          [d EXCEPT !.i = d.i + 1, !.successCount = sc,
                                    !.failCount = fc]]
                   /\ swLast' = [SwIdle EXCEPT !.op = "settle", !.outcome = "next"]
              ELSE /\ swRuns' = [swRuns EXCEPT ![r] = IdleRun]
                   /\ swLast' = [SwIdle EXCEPT !.op = "settle",
                          !.outcome = "complete",
                          !.msg = [type |-> "SYNC_COMPLETE", success |-> sc,
                                   failed |-> fc, total |-> Len(d.snap)]]
    /\ UNCHANGED idbNextKey
    /\ NotWorker

-----------------------------------------------------------------------------
(* Cache Storage and the life cycle of the three worker scripts *)

\* const APP_VERSION / SHELL_CACHE / IMAGE_CACHE of sw.js, and CACHE_NAME of
\* the two service-worker.js generations
APP_VERSION == "gh-pos-v1.0.2"
SHELL_CACHE == "gh-pos-v1.0.2-shell"
IMAGE_CACHE == "gh-pos-v1.0.2-images"
CACHE_NAME_V2 == "thefilmigo-pos-v2"
CACHE_NAME_V1 == "thefilmigo-pos-v1"

Versions == {APP_VERSION, CACHE_NAME_V2, CACHE_NAME_V1}

CacheNames == {SHELL_CACHE, IMAGE_CACHE, CACHE_NAME_V2, CACHE_NAME_V1}

\* two of the pre-cached files: a page and an image
ShellUrls == {"/pos.html", "/assets/icons/icon-192x192.png"}

\* the files of the install lists the router looks up by name: /offline.html
\* in SHELL_FILES of sw.js, /login.html in urlsToCache of service-worker.js
PrecacheUrls(v) ==
    ShellUrls \cup (IF v = APP_VERSION THEN {"/offline.html"} ELSE {"/login.html"})

\* what the server holds under a URL: the files of one deployment or the next
Bodies == {"d1", "d2"}

\* the GET requests of the page: one URL of each class the routers tell apart,
\* and one that ends in .png behind a .js path
GetUrls ==
    { "/pos.html",
      "/assets/nav-styles.css",
      "/assets/icons/icon-192x192.png",
      "/assets/app.js?v=logo.png",
      "https://project.supabase.co/rest/v1/products" }

\* new URL(url): hostname, the extension the pathname ends in, and the
\* extension the whole URL ends in when that lies in the query string
UrlParts(url) ==
    CASE url = "/pos.html" ->
           [hostname |-> "origin", pathname |-> "/pos.html", pathExt |-> "html",
            queryExt |-> "none"]
      [] url = "/offline.html" ->
           [hostname |-> "origin", pathname |-> "/offline.html", pathExt |-> "html",
            queryExt |-> "none"]
      [] url = "/login.html" ->
           [hostname |-> "origin", pathname |-> "/login.html", pathExt |-> "html",
            queryExt |-> "none"]
      [] url = "/assets/nav-styles.css" ->
           [hostname |-> "origin", pathname |-> "/assets/nav-styles.css",
            pathExt |-> "css", queryExt |-> "none"]
      [] url = "/assets/icons/icon-192x192.png" ->
           [hostname |-> "origin", pathname |-> "/assets/icons/icon-192x192.png",
            pathExt |-> "png", queryExt |-> "none"]
      [] url = "/assets/app.js?v=logo.png" ->
           [hostname |-> "origin", pathname |-> "/assets/app.js", pathExt |-> "js",
            queryExt |-> "png"]
      [] url = "https://project.supabase.co/rest/v1/products" ->
           [hostname |-> "project.supabase.co", pathname |-> "/rest/v1/products",
            pathExt |-> "none", queryExt |-> "none"]

\* NETWORK_ONLY_HOSTS, as far as the hosts of the model go
NETWORK_ONLY_HOSTS == {"project.supabase.co"}

\* isNetworkOnly(url); no URL of the model has a path under /functions/
IsNetworkOnly(url) == UrlParts(url).hostname \in NETWORK_ONLY_HOSTS

\* isNetworkFirst(url)
IsNetworkFirst(url) ==
    \/ UrlParts(url).pathExt = "html"
    \/ UrlParts(url).pathExt = "js"
    \/ UrlParts(url).pathname = "/"

ImageExtensions == {"png", "jpg", "jpeg", "gif", "svg", "webp", "ico"}

\* isImage(url): the pattern is matched against the whole URL, query included
IsImage(url) ==
    IF UrlParts(url).queryExt = "none"
    THEN UrlParts(url).pathExt \in ImageExtensions
    ELSE UrlParts(url).queryExt \in ImageExtensions

\* request.url.endsWith('.html') || pathname === '/'
IsPage(url) ==
    \/ (UrlParts(url).pathExt = "html" /\ UrlParts(url).queryExt = "none")
    \/ UrlParts(url).pathname = "/"

\* the fetch listener of sw.js with the image test ahead of the app-shell test
RouteImageFirst(url) ==
    IF IsNetworkOnly(url) THEN "network-only"
    ELSE IF IsImage(url) THEN "image"
    ELSE IF IsNetworkFirst(url) THEN "network-first"
    ELSE "cache-first"

\* a fetch listener of sw.js that serves the app shell cache-first, as the
\* earlier workers do
RouteShellCacheFirst(url) ==
    IF IsNetworkOnly(url) THEN "network-only"
    ELSE IF IsImage(url) THEN "image"
    ELSE "cache-first"

\* the branch the fetch listener of sw.js takes for a GET
Route(url) ==
    IF IsNetworkOnly(url) THEN "network-only"
    ELSE IF IsNetworkFirst(url) THEN "network-first"
    ELSE IF IsImage(url) THEN "image"
    ELSE "cache-first"

\* the branch the fetch listener of service-worker.js v2 takes for a GET
RouteV2(url) ==
    IF UrlParts(url).hostname # "origin" /\ UrlParts(url).hostname # "project.supabase.co"
    THEN "not-intercepted"
    ELSE IF UrlParts(url).hostname = "project.supabase.co" THEN "network-first"
    ELSE "cache-first"

\* the branch the fetch listener of service-worker.js v1 takes
RouteV1(url) ==
    IF UrlParts(url).hostname # "origin" THEN "not-intercepted" ELSE "cache-first"

RouteOf(v, url) ==
    IF v = APP_VERSION THEN Route(url)
    ELSE IF v = CACHE_NAME_V2 THEN RouteV2(url)
    ELSE RouteV1(url)

AbsentCache == [present |-> FALSE, entries |-> {}]

\* the caches a worker version names as its own
CurrentCacheNames(v) ==
    IF v = APP_VERSION THEN {SHELL_CACHE, IMAGE_CACHE} ELSE {v}

\* the cache the install handler fills
ShellCacheOf(v) == IF v = APP_VERSION THEN SHELL_CACHE ELSE v

\* an activate handler that spares the shell cache only
KeptByActivateShellOnly(v, name) ==
    IF v = APP_VERSION THEN name = SHELL_CACHE ELSE name = v

\* the filter of the activate handler: TRUE for a cache it does not delete
KeptByActivate(v, name) ==
    IF v = APP_VERSION
    THEN ~(name # SHELL_CACHE /\ name # IMAGE_CACHE)
    ELSE ~(name # v)

\* what install adds, given the files whose download succeeded: sw.js adds
\* file by file, service-worker.js with one addAll that adds all or nothing
InstallAdds(v, fetched) ==
    IF v = APP_VERSION THEN fetched
    ELSE IF fetched = PrecacheUrls(v) THEN PrecacheUrls(v)
    ELSE {}

\* the request URLs a cache holds
EntryUrls(c) == {e.url : e \in c.entries}

\* the body stored under a URL the cache holds
CachedBody(c, url) == (CHOOSE e \in c.entries : e.url = url).body

\* a cache.put that stores the response without its body
CachePutNoBody(cs, name, url, body) ==
    [cs EXCEPT ![name] =
        [present |-> TRUE,
         entries |-> {e \in @.entries : e.url # url}
                        \cup {[url |-> url, body |-> ""]}]]

\* cache.put(request, response) after caches.open(name): the entry of the
\* same request is replaced
CachePut(cs, name, url, body) ==
    [cs EXCEPT ![name] =
        [present |-> TRUE,
         entries |-> {e \in @.entries : e.url # url}
                        \cup {[url |-> url, body |-> body]}]]

\* caches.open(name): creates the cache when there is none
CacheOpen(cs, name) ==
    [cs EXCEPT ![name] = [present |-> TRUE, entries |-> @.entries]]

\* caches.match(request): some cache of the origin holds the url
CachesMatch(cs, url) == \E n \in CacheNames : url \in EntryUrls(cs[n])

\* the caches caches.match(request) can answer from
HoldersOf(cs, url) == {n \in CacheNames : url \in EntryUrls(cs[n])}

\* the responses of the router: from the network, from a cache, made up by
\* the worker, or none (respondWith was given a rejection or undefined, and
\* the fetch of the page rejects)
FromNetwork(net, body) ==
    IF net = "ok" THEN [from |-> "network", status |-> 200, body |-> body]
    ELSE [from |-> "network", status |-> 500, body |-> "error"]

FromCache(cs, name, url) ==
    [from |-> "cache", status |-> 200, body |-> CachedBody(cs[name], url)]

Synthetic(status, body) == [from |-> "worker", status |-> status, body |-> body]

NoAnswer == [from |-> "none", status |-> 0, body |-> ""]

\* caches.match(name of a fallback page): the page, or undefined
FallbackPage(cs, url) ==
    IF CachesMatch(cs, url)
    THEN FromCache(cs, CHOOSE n \in HoldersOf(cs, url) : TRUE, url)
    ELSE NoAnswer

NoPut == [cache |-> "none", url |-> "", body |-> "", opened |-> FALSE]

\* what one run of a fetch listener comes to: the response, whether
\* fetch(request) was called, the cache it opened before it answered, and the
\* cache.put it left behind
Outcome(response, fetched, opens, put) ==
    [response |-> response, fetched |-> fetched, opens |-> opens, put |-> put]

PutOf(name, url, body, opened) ==
    [cache |-> name, url |-> url, body |-> body, opened |-> opened]

\* the four branches of the fetch listener of sw.js; hit is the cache
\* caches.match answers from, "none" when no cache holds the request
SwStrategy(strategy, url, net, body, cs, hit) ==
    CASE strategy = "network-only" ->
           Outcome(IF net = "fail" THEN NoAnswer ELSE FromNetwork(net, body),
                   TRUE, "none", NoPut)
      [] strategy = "network-first" ->
           IF net = "ok"
           THEN Outcome(FromNetwork(net, body), TRUE, "none",
                        PutOf(SHELL_CACHE, url, body, FALSE))
           ELSE IF net # "fail"
           THEN Outcome(FromNetwork(net, body), TRUE, "none", NoPut)
           ELSE IF hit # "none"
           THEN Outcome(FromCache(cs, hit, url), TRUE, "none", NoPut)
           ELSE IF IsPage(url)
           THEN \* caches.match('/offline.html') || offlineFallback(): the left
                \* side is a promise, and a promise is never falsy
                Outcome(FallbackPage(cs, "/offline.html"), TRUE, "none", NoPut)
           ELSE Outcome(Synthetic(503, ""), TRUE, "none", NoPut)
      [] strategy = "image" ->
           IF url \in EntryUrls(cs[IMAGE_CACHE])
           THEN Outcome(FromCache(cs, IMAGE_CACHE, url), FALSE, IMAGE_CACHE, NoPut)
           ELSE IF net = "ok"
           THEN Outcome(FromNetwork(net, body), TRUE, IMAGE_CACHE,
                        PutOf(IMAGE_CACHE, url, body, TRUE))
           ELSE IF net # "fail"
           THEN Outcome(FromNetwork(net, body), TRUE, IMAGE_CACHE, NoPut)
           ELSE Outcome(Synthetic(404, ""), TRUE, IMAGE_CACHE, NoPut)
      [] OTHER ->
           IF hit # "none"
           THEN Outcome(FromCache(cs, hit, url), FALSE, "none", NoPut)
           ELSE IF net = "ok"
           THEN Outcome(FromNetwork(net, body), TRUE, SHELL_CACHE,
                        PutOf(SHELL_CACHE, url, body, TRUE))
           ELSE IF net # "fail"
           THEN Outcome(FromNetwork(net, body), TRUE, "none", NoPut)
           ELSE Outcome(Synthetic(200, "offline-page"), TRUE, "none", NoPut)

\* the fetch listener of sw.js for a GET
AnswerSw(url, net, body, cs, hit) ==
    SwStrategy(Route(url), url, net, body, cs, hit)

\* the fetch listeners of service-worker.js, v2 and v1, for a GET
AnswerOld(v, url, net, body, cs, hit) ==
    CASE RouteOf(v, url) = "not-intercepted" ->
           Outcome(IF net = "fail" THEN NoAnswer ELSE FromNetwork(net, body),
                   TRUE, "none", NoPut)
      [] RouteOf(v, url) = "network-first" ->
           IF net = "ok"
           THEN Outcome(FromNetwork(net, body), TRUE, "none",
                        PutOf(v, url, body, FALSE))
           ELSE IF net # "fail"
           THEN Outcome(FromNetwork(net, body), TRUE, "none", NoPut)
           ELSE IF hit # "none"
           THEN Outcome(FromCache(cs, hit, url), TRUE, "none", NoPut)
           ELSE Outcome(Synthetic(503, "no-cached-data"), TRUE, "none", NoPut)
      [] OTHER ->
           IF hit # "none"
           THEN Outcome(FromCache(cs, hit, url), FALSE, "none", NoPut)
           ELSE IF net = "ok"
           THEN Outcome(FromNetwork(net, body), TRUE, "none",
                        PutOf(v, url, body, FALSE))
           ELSE IF net # "fail"
           THEN Outcome(FromNetwork(net, body), TRUE, "none", NoPut)
           ELSE IF IsPage(url)
           THEN Outcome(FallbackPage(cs, "/login.html"), TRUE, "none", NoPut)
           ELSE IF v = CACHE_NAME_V2
           THEN Outcome(Synthetic(503, "Offline"), TRUE, "none", NoPut)
           ELSE Outcome(NoAnswer, TRUE, "none", NoPut)

Answer(v, url, net, body, cs, hit) ==
    IF v = APP_VERSION THEN AnswerSw(url, net, body, cs, hit)
    ELSE AnswerOld(v, url, net, body, cs, hit)

\* no handler of a worker has run
RIdle == [op |-> "none", worker |-> "none", url |-> "", net |-> "none",
          quiet |-> TRUE, fetched |-> FALSE, response |-> NoAnswer]

\* the caches have no part in the page's queue or the worker's write queue
NotQueues == UNCHANGED <<pageVars, swVars, backendVars, tabVars>>

\* a page registers worker script v, a new version for the scope: its install
\* handler downloads the files of its list, stores those that arrived, and
\* calls skipWaiting(); the worker that was active stays active meanwhile
Install(v, fetched, body) ==
    /\ lifecycle \in {"none", "activated"}
    /\ caches' = [caches EXCEPT ![ShellCacheOf(v)] =
                     [present |-> TRUE,
                      entries |-> {e \in @.entries : e.url \notin InstallAdds(v, fetched)}
                                     \cup {[url |-> u, body |-> body] :
                                              u \in InstallAdds(v, fetched)}]]
    /\ swVersion' = v
    /\ lifecycle' = "installed"
    /\ rLast' = [RIdle EXCEPT !.op = "install", !.worker = v]
    /\ cachesAtActivate' = [n \in CacheNames |-> AbsentCache]
    /\ UNCHANGED <<pendingDeletes, active, pendingPuts, gets>>
    /\ NotQueues

\* the worker that was active is terminated, with the cache.put calls it had
\* left behind; the activate handler of the new one runs up to caches.keys()
\* and sets off one delete for every cache the filter does not spare
ActivateStart ==
    /\ lifecycle = "installed"
    /\ pendingDeletes' = {n \in CacheNames :
                             caches[n].present /\ ~KeptByActivate(swVersion, n)}
    /\ cachesAtActivate' = caches
    /\ lifecycle' = "activating"
    /\ active' = "none"
    /\ pendingPuts' = {}
    /\ rLast' = [RIdle EXCEPT !.op = "activate", !.worker = swVersion]
    /\ UNCHANGED <<caches, swVersion, gets>>
    /\ NotQueues

\* one caches.delete(name) of the Promise.all completes
ActivateDelete(name) ==
    /\ lifecycle = "activating"
    /\ name \in pendingDeletes
    /\ caches' = [caches EXCEPT ![name] = AbsentCache]
    /\ pendingDeletes' = pendingDeletes \ {name}
    /\ UNCHANGED <<swVersion, lifecycle, cachesAtActivate, active, rLast, pendingPuts,
                   gets>>
    /\ NotQueues

\* Promise.all has resolved: clients.claim(), and the handler has completed;
\* the events held back for the new worker are now delivered to it
ActivateDone ==
    /\ lifecycle = "activating"
    /\ pendingDeletes = {}
    /\ lifecycle' = "activated"
    /\ active' = swVersion
    /\ UNCHANGED <<caches, swVersion, pendingDeletes, cachesAtActivate, rLast,
                   pendingPuts, gets>>
    /\ NotQueues

\* the fetch listener of the active worker for a GET of the page, up to its
\* answer; the cache.put it starts is not awaited and completes later
FetchGet(url, net, body, hit) ==
    /\ active # "none"
    /\ gets < MaxGets
    /\ gets' = gets + 1
    /\ net = "ok" \/ body = "d1"
    /\ IF HoldersOf(caches, url) = {} THEN hit = "none"
       ELSE hit \in HoldersOf(caches, url)
    /\ LET o == Answer(active, url, net, body, caches, hit)
       IN  /\ caches' = IF o.opens # "none" THEN CacheOpen(caches, o.opens)
                        ELSE caches
           /\ pendingPuts' = IF o.put.cache # "none"
                             THEN pendingPuts \cup {o.put} ELSE pendingPuts
           /\ Cardinality(pendingPuts') <= MaxPuts
           /\ rLast' = [op |-> "fetch", worker |-> active, url |-> url,
                        net |-> net, quiet |-> pendingPuts = {},
                        fetched |-> o.fetched, response |-> o.response]
    /\ cachesAtActivate' = [n \in CacheNames |-> AbsentCache]
    /\ UNCHANGED <<swVersion, lifecycle, pendingDeletes, active>>
    /\ NotQueues

\* a cache.put left behind by a fetch listener settles: the entry is stored,
\* in a cache that caches.open creates if need be, or the put rejects
PutSettles(p, stored) ==
    /\ p \in pendingPuts
    /\ pendingPuts' = pendingPuts \ {p}
    /\ caches' = IF stored THEN CachePut(caches, p.cache, p.url, p.body)
                 ELSE caches
    /\ UNCHANGED <<swVersion, lifecycle, pendingDeletes, cachesAtActivate, active,
                   rLast, gets>>
    /\ NotQueues

\* the caches the CLEAR_CACHE listener of a worker deletes: sw.js every cache,
\* service-worker.js v2 its own
ClearedBy(v, cs) ==
    IF v = APP_VERSION THEN {n \in CacheNames : cs[n].present}
    ELSE {n \in {v} : cs[n].present}

\* the message listener of the active worker for CLEAR_CACHE; v1 has no
\* message listener. A put under way on a cache object that is deleted here
\* no longer reaches Cache Storage
ClearCache ==
    /\ active \notin {"none", CACHE_NAME_V1}
    /\ caches' = [n \in CacheNames |->
                    IF n \in ClearedBy(active, caches) THEN AbsentCache
                    ELSE caches[n]]
    /\ pendingPuts' = {p \in pendingPuts :
                         ~(p.opened /\ p.cache \in ClearedBy(active, caches))}
    /\ rLast' = [RIdle EXCEPT !.op = "clear", !.worker = active]
    /\ cachesAtActivate' = [n \in CacheNames |-> AbsentCache]
    /\ UNCHANGED <<swVersion, lifecycle, pendingDeletes, active, gets>>
    /\ NotQueues

-----------------------------------------------------------------------------
(* The specifications *)

Init ==
    /\ isOnline \in BOOLEAN
    /\ queuedTransactions = <<>>
    /\ syncInProgress = FALSE
    /\ storage = NoItem
    /\ timerPending = isOnline
    /\ drains = [s \in 1..MaxDrains |-> IdleDrain]
    /\ nextId = 1
    /\ last = NoCall
    /\ log = <<>>
    /\ failsOf = [id \in Ids |-> 0]
    /\ succeededIds = {}
    /\ evictedIds = {}
    /\ idb = <<>>
    /\ idbNextKey = 1
    /\ swRuns = [r \in 1..MaxSwRuns |-> IdleRun]
    /\ swLast = SwIdle
    /\ okReplays = [k \in 1..MaxSwEnq |-> 0]
    /\ caches = [n \in CacheNames |-> AbsentCache]
    /\ swVersion = "none"
    /\ lifecycle = "none"
    /\ pendingDeletes = {}
    /\ cachesAtActivate = [n \in CacheNames |-> AbsentCache]
    /\ active = "none"
    /\ pendingPuts = {}
    /\ rLast = RIdle
    /\ gets = 0
    /\ sales = [id \in Ids |-> 0]
    /\ stock = [p \in Products |-> InitStock]
    /\ written = {}
    /\ otherQueue = <<>>

Next ==
    \/ OnlineEvent
    \/ OfflineEvent
    \/ VisibilityChange
    \/ StartupTimer
    \/ ManualSync
    \/ \E type \in Kinds : \E data \in Payloads(type) : QueueTransaction(type, data)
    \/ \E s \in DOMAIN drains : \E backend \in {"ok", "fail"} : ReplaySettles(s, backend)
    \/ \E type \in {"TRANSACTION_QUEUED", "SYNC_COMPLETE", "QUEUE_COUNT"} :
          HandleServiceWorkerMessage(type)
    \/ Reload

Spec == Init /\ [][Next]_vars

\* one OfflineManager from its construction on: the page is not loaded again
NextOneManager ==
    \/ OnlineEvent
    \/ OfflineEvent
    \/ VisibilityChange
    \/ StartupTimer
    \/ ManualSync
    \/ \E type \in Kinds : \E data \in Payloads(type) : QueueTransaction(type, data)
    \/ \E s \in DOMAIN drains : \E backend \in {"ok", "fail"} : ReplaySettles(s, backend)
    \/ \E type \in {"TRANSACTION_QUEUED", "SYNC_COMPLETE", "QUEUE_COUNT"} :
          HandleServiceWorkerMessage(type)

SpecOneManager == Init /\ [][NextOneManager]_vars

\* the promise syncNow awaits settles: the data module resolves or rejects
\* every call, so a suspended drain is resumed
ReplayIsAnswered ==
    \E s \in DOMAIN drains : \E backend \in {"ok", "fail"} :
       ReplaySettles(s, backend)

SpecOneManagerLive == SpecOneManager /\ WF_vars(ReplayIsAnswered)

\* one OfflineManager whose connection comes back, whose triggers keep
\* occurring and whose replays all settle, with success or with failure
WithinLiveBounds == nextId <= LiveEnq + 1

NextManagerLive ==
    \/ OnlineEvent /\ WithinLiveBounds'
    \/ OfflineEvent /\ WithinLiveBounds'
    \/ VisibilityChange /\ WithinLiveBounds'
    \/ StartupTimer /\ WithinLiveBounds'
    \/ ManualSync /\ WithinLiveBounds'
    \/ \E type \in Kinds : \E data \in Payloads(type) :
          QueueTransaction(type, data) /\ WithinLiveBounds'
    \/ \E s \in DOMAIN drains : \E backend \in {"ok", "fail"} :
          ReplaySettlesAnyway(s, backend) /\ WithinLiveBounds'
    \/ \E type \in {"TRANSACTION_QUEUED", "SYNC_COMPLETE", "QUEUE_COUNT"} :
          HandleServiceWorkerMessage(type) /\ WithinLiveBounds'

TriggersOccur == OnlineEvent \/ VisibilityChange \/ StartupTimer \/ ManualSync

ReplayIsAnsweredAnyway ==
    \E s \in DOMAIN drains : \E backend \in {"ok", "fail"} :
       ReplaySettlesAnyway(s, backend)

SpecManagerLive ==
    /\ Init /\ [][NextManagerLive]_vars
    /\ WF_vars(OnlineEvent)
    /\ WF_vars(TriggersOccur)
    /\ WF_vars(ReplayIsAnsweredAnyway)

\* one OfflineManager and the backend its replays write to
WithinBackendBounds == nextId <= BackendEnq + 1

NextBackend ==
    \/ OnlineEvent /\ WithinBackendBounds'
    \/ ManualSync /\ WithinBackendBounds'
    \/ \E type \in Kinds : \E data \in BackendPayloads(type) :
          QueueTransaction(type, data) /\ WithinBackendBounds'
    \/ \E s \in DOMAIN drains : \E c \in CallResults :
          ReplayAtBackend(s, c) /\ WithinBackendBounds'

SpecBackend == Init /\ [][NextBackend]_vars

\* two tabs of the application: the OfflineManager of the first with its
\* drains, the second opened, loaded again and queueing
NextTabs ==
    \/ ManualSync
    \/ Reload
    \/ \E type \in Kinds : \E data \in Payloads(type) : QueueTransaction(type, data)
    \/ \E s \in DOMAIN drains : \E backend \in {"ok", "fail"} : ReplaySettles(s, backend)
    \/ OtherTabLoads
    \/ \E type \in Kinds : \E data \in Payloads(type) : OtherTabQueues(type, data)

SpecTabs == Init /\ [][NextTabs]_vars

\* the queueing service worker on its own
NextWorker ==
    \/ \E req \in WriteRequests : \E net \in {"ok", "http-error", "fail"} :
          \E idbOk \in BOOLEAN : FetchNonGet(req, net, idbOk)
    \/ \E trigger \in SyncTriggers : \E idbOk \in BOOLEAN : SwSync(trigger, idbOk)
    \/ \E r \in DOMAIN swRuns : \E net \in {"ok", "http-error", "fail"} :
          SwFetchSettles(r, net)

SpecWorker == Init /\ [][NextWorker]_vars

\* the browser keeps firing the triggers that call syncQueuedRequests, and
\* every replayed fetch resolves or rejects
RunIsTriggered ==
    \E trigger \in SyncTriggers : CallsSync(trigger) /\ SwSync(trigger, TRUE)

FetchIsAnswered ==
    \E r \in DOMAIN swRuns : \E net \in {"ok", "http-error", "fail"} :
       SwFetchSettles(r, net)

SpecWorkerLive ==
    SpecWorker /\ WF_vars(RunIsTriggered) /\ WF_vars(FetchIsAnswered)

\* Cache Storage under the installs, activations and fetches of the workers
NextCache ==
    \/ \E v \in Versions : \E fetched \in SUBSET PrecacheUrls(v) :
          Install(v, fetched, "d1")
    \/ ActivateStart
    \/ \E name \in CacheNames : ActivateDelete(name)
    \/ ActivateDone
    \/ \E url \in ShellUrls : \E net \in {"ok", "fail"} :
          \E hit \in CacheNames \cup {"none"} : FetchGet(url, net, "d1", hit)
    \/ \E p \in pendingPuts : \E stored \in BOOLEAN : PutSettles(p, stored)
    \/ ClearCache

SpecCache == Init /\ [][NextCache]_vars

\* the workers whose fetch listener tells classes of GET requests apart
RouterVersions == {APP_VERSION, CACHE_NAME_V2}

\* the downloads of an install: every file arrives, every file but the
\* offline page, or none
InstallDownloads(v) ==
    {PrecacheUrls(v), PrecacheUrls(v) \ {"/offline.html"}, {}}

\* the cache routers of sw.js and service-worker.js v2 under the GET requests
\* of the page
NextRouter ==
    \/ \E v \in RouterVersions : \E fetched \in InstallDownloads(v) :
          \E body \in Bodies : Install(v, fetched, body)
    \/ ActivateStart
    \/ \E name \in CacheNames : ActivateDelete(name)
    \/ ActivateDone
    \/ \E url \in GetUrls : \E net \in {"ok", "http-error", "fail"} :
          \E body \in Bodies : \E hit \in CacheNames \cup {"none"} :
             FetchGet(url, net, body, hit)
    \/ \E p \in pendingPuts : \E stored \in BOOLEAN : PutSettles(p, stored)
    \/ ClearCache

SpecRouter == Init /\ [][NextRouter]_vars

\* the page and the service worker side by side, on a short history
WithinSystemBounds ==
    /\ nextId <= SysEnq + 1
    /\ idbNextKey <= SysSwEnq + 1
    /\ Cardinality(ActiveRuns) <= SysSwRuns

NextSystem ==
    \/ OnlineEvent /\ WithinSystemBounds'
    \/ OfflineEvent /\ WithinSystemBounds'
    \/ VisibilityChange /\ WithinSystemBounds'
    \/ StartupTimer /\ WithinSystemBounds'
    \/ ManualSync /\ WithinSystemBounds'
    \/ \E type \in Kinds : \E data \in Payloads(type) :
          QueueTransaction(type, data) /\ WithinSystemBounds'
    \/ \E s \in DOMAIN drains : \E backend \in {"ok", "fail"} :
          ReplaySettles(s, backend) /\ WithinSystemBounds'
    \/ \E type \in {"TRANSACTION_QUEUED", "SYNC_COMPLETE", "QUEUE_COUNT"} :
          HandleServiceWorkerMessage(type) /\ WithinSystemBounds'
    \/ Reload /\ WithinSystemBounds'
    \/ \E req \in WriteRequests : \E net \in {"ok", "http-error", "fail"} :
          \E idbOk \in BOOLEAN :
             FetchNonGet(req, net, idbOk) /\ WithinSystemBounds'
    \/ \E trigger \in SyncTriggers : \E idbOk \in BOOLEAN :
          SwSync(trigger, idbOk) /\ WithinSystemBounds'
    \/ \E r \in DOMAIN swRuns : \E net \in {"ok", "http-error", "fail"} :
          SwFetchSettles(r, net) /\ WithinSystemBounds'

SpecSystem == Init /\ [][NextSystem]_vars

\* the two drains side by side: entries are queued on both sides, passes are
\* started by hand and by the worker's triggers, and replays settle
WithinDrainBounds ==
    /\ nextId <= DrainEnq + 1
    /\ idbNextKey <= DrainSwEnq + 1

\* the failed writes and the triggers that fill and start the worker's queue
QueuedWrites == {req \in WriteRequests : IsSupabase(req)}
DrainTriggers == {"message:SYNC_NOW", "sync:sync-offline-queue"}

NextDrains ==
    \/ ManualSync /\ WithinDrainBounds'
    \/ \E data \in Payloads("sale") :
          QueueTransaction("sale", data) /\ WithinDrainBounds'
    \/ \E s \in DOMAIN drains : \E backend \in {"ok", "fail"} :
          ReplaySettles(s, backend) /\ WithinDrainBounds'
    \/ \E req \in QueuedWrites :
          FetchNonGet(req, "fail", TRUE) /\ WithinDrainBounds'
    \/ \E trigger \in DrainTriggers :
          SwSync(trigger, TRUE) /\ WithinDrainBounds'
    \/ \E r \in DOMAIN swRuns : \E net \in {"ok", "fail"} :
          SwFetchSettles(r, net) /\ WithinDrainBounds'

SpecDrains == Init /\ [][NextDrains]_vars


-----------------------------------------------------------------------------
(* Properties of the OfflineManager queue *)

Enqueued == 1..(nextId - 1)

StartsOf(l) == {k \in DOMAIN l : l[k][1] = "start"}

\* C1: syncNow is not reentrant.  At most one syncNow is suspended in a replay
\* at any time, syncInProgress is set exactly while one is, and within the pass
\* under way no entry has been handed to syncTransaction twice: a syncNow
\* invoked during the pass has started no replay of its own.
C1_NoReentrantDrain ==
    /\ Cardinality(ActiveDrains) <= 1
    /\ syncInProgress <=> ActiveDrains # {}
    /\ \A j, k \in StartsOf(log) : j # k => log[j][3] # log[k][3]

\* a syncNow call has just returned at the guard while a drain is suspended in
\* the replay of its second entry
C1_Witness ==
    /\ last.outcome = "busy"
    /\ \E s \in ActiveDrains : drains[s].i = 2

\* C3: an entry whose replay throws in every pass is in the queue after each of
\* its first 4 passes and is gone after its 5th: between passes, an entry that
\* never succeeded is queued exactly when fewer than 5 completed passes threw
\* for it.
C3_EvictedAtFifthFailure ==
    ActiveDrains = {} =>
        \A e \in Enqueued \ succeededIds :
            e \in QueueIds(queuedTransactions) <=> failsOf[e] < MaxAttempts

\* C4: within one pass the replays are one at a time and in enqueue order: a
\* syncTransaction call starts only after the one before it has settled, each
\* settling is that of the call started last, and the entries are started in
\* the order of their ids, whatever their kinds.
C4_FifoOneAtATime ==
    /\ \A k \in DOMAIN log :
          /\ (log[k][1] = "start" /\ k > 1) => log[k - 1][1] = "settle"
          /\ log[k][1] = "settle" =>
                k > 1 /\ log[k - 1] = <<"start", log[k][2], log[k][3]>>
    /\ \A j, k \in StartsOf(log) : j < k => log[j][3] < log[k][3]

\* the third entry of a snapshot of mixed kinds is being replayed, after the
\* first two have settled
C4_Witness ==
    \E s \in ActiveDrains :
        /\ Len(drains[s].snap) = 3
        /\ drains[s].i = 3
        /\ {drains[s].snap[k].type : k \in 1..3} = Kinds
        /\ Len(log) = 5

\* C5: the queue length is the number of queueTransaction calls minus the
\* number of entries removed after a successful replay or at the ceiling.
C5_LengthIsEnqueuedMinusRemoved ==
    Len(queuedTransactions) =
        (nextId - 1) - Cardinality(succeededIds \cup evictedIds)

-----------------------------------------------------------------------------
(* The service worker's replay of its IndexedDB queue *)

\* the key whose replayed fetch run r awaits
InFlightKey(r) == swRuns[r].snap[swRuns[r].i].key

\* C2: no stored request is in flight in two overlapping syncQueuedRequests
\* runs, and the backend accepts no stored request more than once
C2_NoConcurrentReplay ==
    /\ \A r1 \in ActiveRuns : \A r2 \in ActiveRuns :
          r1 # r2 => InFlightKey(r1) # InFlightKey(r2)
    /\ \A k \in DOMAIN okReplays : okReplays[k] <= 1

\* C8: a write to the data API whose network fetch fails adds exactly one
\* entry to the write queue and is answered with status 202 and the body
\* fields queued, offline and success all true
C8_FailedWriteQueuedOnce ==
    (swLast.op = "fetch" /\ IsSupabase(swLast.req) /\ swLast.net = "fail")
        => /\ swLast.added = 1
           /\ swLast.response.status = 202
           /\ swLast.response.queued
           /\ swLast.response.offline
           /\ swLast.response.success

-----------------------------------------------------------------------------
(* Draining an empty queue *)

\* a step that is a syncNow call made with an empty queue and no pass
\* suspended: it is a step of the page, every other handler of the page
\* leaves last at NoCall, and a settling replay needs a suspended pass
PageDrainsEmptyQueue ==
    /\ UNCHANGED swVars
    /\ Len(queuedTransactions) = 0
    /\ ActiveDrains = {}
    /\ last'.outcome \in {"offline", "empty", "complete"}

\* a step that is a syncQueuedRequests call made with an empty store
WorkerDrainsEmptyQueue ==
    /\ UNCHANGED pageVars
    /\ Len(idb) = 0
    /\ swLast'.op = "sync"
    /\ swLast'.outcome # "ignored"

\* C7 as stated: a drain of an empty queue, on the page and in the service
\* worker, still delivers a result whose counters are all 0
C7_EmptyDrainReportsZeros ==
    [][ /\ PageDrainsEmptyQueue =>
              last'.report = [delivered |-> TRUE, succeeded |-> 0, failed |-> 0]
        /\ WorkerDrainsEmptyQueue =>
              swLast'.msg = [type |-> "SYNC_COMPLETE", success |-> 0,
                             failed |-> 0, total |-> 0] ]_vars

\* C7: a drain of an empty queue, on the page and in the service worker, is a
\* no-op that delivers nothing: no replay starts, the queue, its stored copy
\* and the busy flag stay as they were, and neither a notification nor a
\* SYNC_COMPLETE message goes out
C7_EmptyDrainIsSilentNoOp ==
    [][ /\ PageDrainsEmptyQueue =>
              /\ UNCHANGED <<queuedTransactions, storage, drains, syncInProgress,
                             log, succeededIds, evictedIds>>
              /\ ~last'.report.delivered
        /\ WorkerDrainsEmptyQueue =>
              /\ UNCHANGED <<idb, swRuns, okReplays>>
              /\ swLast'.msg = NoMessage ]_vars

\* both kinds of drain have met an empty queue that had held an entry before
C7_Witness ==
    /\ last.outcome = "empty"
    /\ ~last.report.delivered
    /\ nextId > 1
    /\ Len(queuedTransactions) = 0
    /\ swLast.op = "sync"
    /\ swLast.outcome = "empty"
    /\ idbNextKey > 1
    /\ Len(idb) = 0

-----------------------------------------------------------------------------
(* Activation and the caches *)

\* C10: when the activate handler of a worker version completes, every cache
\* that is not one of that version's caches is gone, and every cache of that
\* version is as the handler found it, entries included
C10_ActivateKeepsOnlyCurrent ==
    [][ (lifecycle = "activating" /\ lifecycle' = "activated") =>
            \A n \in CacheNames :
               caches'[n] = IF n \in CurrentCacheNames(swVersion')
                            THEN cachesAtActivate[n]
                            ELSE AbsentCache ]_vars

\* sw.js has been activated over a filled cache of service-worker.js v2 and
\* over its own filled shell cache
C10_Witness ==
    /\ lifecycle = "activated"
    /\ swVersion = APP_VERSION
    /\ EntryUrls(cachesAtActivate[CACHE_NAME_V2]) = PrecacheUrls(CACHE_NAME_V2)
    /\ ~caches[CACHE_NAME_V2].present
    /\ EntryUrls(cachesAtActivate[SHELL_CACHE]) = PrecacheUrls(APP_VERSION)
    /\ caches[SHELL_CACHE] = cachesAtActivate[SHELL_CACHE]
    /\ \A n \in CacheNames : caches[n].present => n = SHELL_CACHE

-----------------------------------------------------------------------------
(* The cache router *)

\* a step in which the fetch listener of sw.js answers a GET
RouterAnswers ==
    /\ active = APP_VERSION
    /\ gets' = gets + 1

C12_RouterAlwaysAnswers ==
    (rLast.op = "fetch" /\ rLast.worker = APP_VERSION /\ rLast.net = "fail")
        => rLast.response.from # "none"

\* C13: a page request (.html or /) whose network fetch fails and that no
\* cache holds is answered with the cached /offline.html when there is one,
\* and with the inline offline page (status 200) when there is none
C13_OfflinePageOrInlinePage ==
    [][ ( /\ RouterAnswers
          /\ rLast'.op = "fetch"
          /\ rLast'.net = "fail"
          /\ IsPage(rLast'.url)
          /\ Route(rLast'.url) = "network-first"
          /\ ~CachesMatch(caches, rLast'.url) )
        => IF CachesMatch(caches, "/offline.html")
           THEN /\ rLast'.response.from = "cache"
                /\ \E n \in HoldersOf(caches, "/offline.html") :
                      rLast'.response.body = CachedBody(caches[n], "/offline.html")
           ELSE rLast'.response = Synthetic(200, "offline-page") ]_vars

\* C14: under sw.js a request for an app-shell URL (.html, .js or /) whose
\* network fetch succeeds is answered with the network response, an older copy
\* in a cache notwithstanding, and a cached copy is the answer only when the
\* network fetch has failed
C14_AppShellNetworkFirst ==
    (rLast.op = "fetch" /\ rLast.worker = APP_VERSION /\ IsNetworkFirst(rLast.url))
        => /\ rLast.fetched
           /\ rLast.net # "fail" => rLast.response.from = "network"
           /\ rLast.net = "ok" => rLast.response.status = 200
           /\ rLast.response.from = "cache" => rLast.net = "fail"

\* /pos.html has come fresh from the network while the shell cache held the
\* copy of the earlier deployment
C14_Witness ==
    /\ rLast.op = "fetch"
    /\ rLast.worker = APP_VERSION
    /\ rLast.url = "/pos.html"
    /\ rLast.net = "ok"
    /\ rLast.response = [from |-> "network", status |-> 200, body |-> "d2"]
    /\ "/pos.html" \in EntryUrls(caches[SHELL_CACHE])
    /\ CachedBody(caches[SHELL_CACHE], "/pos.html") = "d1"

\* C15: no cache holds a response of a network-only host, and a GET to such a
\* host is never answered from a cache
C15_NetworkOnlyNeverCached ==
    /\ \A n \in CacheNames : \A u \in EntryUrls(caches[n]) : ~IsNetworkOnly(u)
    /\ (rLast.op = "fetch" /\ IsNetworkOnly(rLast.url))
          => (rLast.fetched /\ rLast.response.from # "cache")

\* C16: when a worker has handled CLEAR_CACHE no cache is left, whatever
\* its name
C16_ClearCacheWipesAll ==
    [][ (rLast.op # "clear" /\ rLast'.op = "clear")
           => \A n \in CacheNames : ~caches'[n].present ]_vars

\* the rules of the router in the order of the specification, and in the
\* order of the fetch listener
RulesImageFirst == <<"network-only", "image", "network-first">>
RulesShellFirst == <<"network-only", "network-first", "image">>

RuleMatches(rule, url) ==
    CASE rule = "network-only" -> IsNetworkOnly(url)
      [] rule = "image" -> IsImage(url)
      [] rule = "network-first" -> IsNetworkFirst(url)

\* the strategy of the first rule of the list that matches, cache-first when
\* none does
FirstMatching(rules, url) ==
    IF \E k \in DOMAIN rules : RuleMatches(rules[k], url)
    THEN rules[CHOOSE k \in DOMAIN rules :
                  /\ RuleMatches(rules[k], url)
                  /\ \A j \in 1..(k - 1) : ~RuleMatches(rules[j], url)]
    ELSE "cache-first"

\* the step is what the given strategy does with the request of the step
StepFollows(strategy) ==
    \E body \in Bodies : \E hit \in CacheNames \cup {"none"} :
       /\ IF HoldersOf(caches, rLast'.url) = {} THEN hit = "none"
          ELSE hit \in HoldersOf(caches, rLast'.url)
       /\ LET o == SwStrategy(strategy, rLast'.url, rLast'.net, body, caches, hit)
          IN  /\ rLast'.response = o.response
              /\ rLast'.fetched = o.fetched
              /\ caches' = IF o.opens # "none" THEN CacheOpen(caches, o.opens)
                           ELSE caches
              /\ pendingPuts' = IF o.put.cache # "none"
                                THEN pendingPuts \cup {o.put} ELSE pendingPuts

\* C17 as stated: sw.js serves every GET by the strategy of the first rule
\* that matches in the order network-only, image, app-shell, everything else
C17_FirstRuleImageBeforeShell ==
    [][ RouterAnswers => StepFollows(FirstMatching(RulesImageFirst, rLast'.url))
      ]_vars

\* C17: sw.js serves every GET by the strategy of the first rule that matches
\* in the order network-only, app-shell, image, everything else; a .js path
\* whose query string ends in .png is served network-first
C17_FirstRuleShellBeforeImage ==
    [][ RouterAnswers => StepFollows(FirstMatching(RulesShellFirst, rLast'.url))
      ]_vars

\* the .js URL that ends in .png has met a dead network and an empty cache,
\* and was answered as an app-shell file: 503, and no image cache opened
C17_Witness ==
    /\ rLast.op = "fetch"
    /\ rLast.worker = APP_VERSION
    /\ rLast.url = "/assets/app.js?v=logo.png"
    /\ IsImage(rLast.url)
    /\ IsNetworkFirst(rLast.url)
    /\ rLast.net = "fail"
    /\ rLast.response = Synthetic(503, "")
    /\ ~caches[IMAGE_CACHE].present

-----------------------------------------------------------------------------
(* The stored copy of the queue, and the course of a pass *)

\* C18: at every point where the page yields to another task, a drain
\* suspended at an await included, localStorage holds the list that is in
\* memory
C18_StoredAfterEveryMutation ==
    LoadQueue(storage) = queuedTransactions


\* the replay drain s of the page awaited has settled: the loop has moved on,
\* or syncNow has run to its end
PassGoesOn(s) ==
    /\ drains[s].active /\ drains'[s].active
    /\ drains'[s].i = drains[s].i + 1

PassEnds(s) ==
    /\ drains[s].active /\ ~drains'[s].active
    /\ last'.outcome = "complete"

\* that replay was counted as a failure
PassCountsFailure(s) ==
    IF drains'[s].active
    THEN drains'[s].failCount = drains[s].failCount + 1
    ELSE last'.report.failed = drains[s].failCount + 1

\* the same three for a run of syncQueuedRequests
RunGoesOn(r) ==
    /\ swRuns[r].active /\ swRuns'[r].active
    /\ swRuns'[r].i = swRuns[r].i + 1

RunEnds(r) ==
    /\ swRuns[r].active /\ ~swRuns'[r].active

RunCountsFailure(r) ==
    IF swRuns'[r].active
    THEN swRuns'[r].failCount = swRuns[r].failCount + 1
    ELSE swLast'.msg.failed = swRuns[r].failCount + 1

IdbKeys(store) == {store[k].key : k \in DOMAIN store}

\* C19: a pass ends only after the last entry of its snapshot, with every
\* entry counted as synced or failed, and a settled replay decides the place
\* in the queue of its own entry alone, by its own outcome
C19_FailureNeverAbortsDrain ==
    [][ /\ \A s \in DOMAIN drains :
             /\ PassEnds(s) =>
                   /\ drains[s].i = Len(drains[s].snap)
                   /\ last'.report.succeeded + last'.report.failed
                         = Len(drains[s].snap)
             /\ PassGoesOn(s) \/ PassEnds(s) =>
                   LET t == drains[s].snap[drains[s].i]
                   IN  /\ \A e \in Ids \ {t.id} :
                              e \in QueueIds(queuedTransactions')
                                 <=> e \in QueueIds(queuedTransactions)
                       /\ t.id \in QueueIds(queuedTransactions')
                             <=> /\ t.id \in QueueIds(queuedTransactions)
                                 /\ PassCountsFailure(s)
                                 /\ ~TooManyAttempts(t.attempts + 1)
        /\ \A r \in DOMAIN swRuns :
             /\ RunEnds(r) =>
                   /\ swRuns[r].i = Len(swRuns[r].snap)
                   /\ swLast'.msg.success + swLast'.msg.failed
                         = Len(swRuns[r].snap)
             /\ RunGoesOn(r) \/ RunEnds(r) =>
                   LET key == swRuns[r].snap[swRuns[r].i].key
                   IN  /\ \A e \in IdbKeys(idb) \cup IdbKeys(idb') : e # key =>
                              (e \in IdbKeys(idb') <=> e \in IdbKeys(idb))
                       /\ key \in IdbKeys(idb')
                             <=> key \in IdbKeys(idb) /\ RunCountsFailure(r)
      ]_vars

\* a pass of the page and a run of the worker have each ended after a failed
\* first replay and a second replay that went through
C19_Witness ==
    /\ last.outcome = "complete"
    /\ last.report.succeeded = 1 /\ last.report.failed = 1
    /\ QueueIds(queuedTransactions) = {1}
    /\ 2 \in succeededIds /\ failsOf[1] = 1
    /\ swLast.outcome = "complete"
    /\ swLast.msg.success = 1 /\ swLast.msg.failed = 1
    /\ IdbKeys(idb) = {1}

\* a call of syncNow passes the three guards and starts a pass
PassStarts(s) == ~drains[s].active /\ drains'[s].active

\* C20: a pass starts only while syncInProgress is false and sets it, the
\* flag is set exactly while a pass is under way, and every pass that has
\* started ends with the flag reset
C20_IdleDrainingIdle ==
    /\ [][\A s \in DOMAIN drains :
             PassStarts(s) => ~syncInProgress /\ syncInProgress']_vars
    /\ [](syncInProgress <=> ActiveDrains # {})
    /\ \A s \in 1..MaxDrains :
          drains[s].active ~> (~drains[s].active /\ ~syncInProgress)

\* a pass in which a replay failed has ended, a replay has gone through, and
\* a later trigger has started a new pass
C20_Witness ==
    /\ failsOf[1] = 1 /\ succeededIds # {}
    /\ syncInProgress /\ ActiveDrains # {}

\* the entries the queue holds that the snapshot of drain s does not: they
\* were added while the drain was suspended
AddedDuring(s) == QueueIds(queuedTransactions) \ QueueIds(drains[s].snap)

\* the entries whose replay was started since the pass began
ReplayedIn(s) == {log[k][3] : k \in {j \in DOMAIN log : log[j][1] = "start"
                                                          /\ log[j][2] = s}}

C22_WorkerRetriesAreCapped ==
    \A k \in 1..MaxSwEnq : (k \in IdbKeys(idb)) ~> (k \notin IdbKeys(idb))

\* C23: every entry the queue holds is in the end replayed with success or
\* evicted at the attempts ceiling, while the connection comes back, the
\* triggers keep occurring and every replay settles
C23_EveryEntryLeaves ==
    \A e \in 1..LiveEnq :
       (e \in QueueIds(queuedTransactions)) ~> (e \in succeededIds \cup evictedIds)

\* the keys of the snapshot of run r
SnapshotKeys(r) == IdbKeys(swRuns[r].snap)

\* C24: a run of syncQueuedRequests that ends posts SYNC_COMPLETE with
\* success + failed = total, total the length of its snapshot, success the
\* number of snapshot entries the run leaves deleted and failed the number it
\* leaves in the queue
C24_SyncCompleteCounters ==
    [][\A r \in DOMAIN swRuns : RunEnds(r) =>
          /\ swLast'.msg.type = "SYNC_COMPLETE"
          /\ swLast'.msg.success + swLast'.msg.failed = swLast'.msg.total
          /\ swLast'.msg.total = Len(swRuns[r].snap)
          /\ swLast'.msg.failed = Cardinality(SnapshotKeys(r) \cap IdbKeys(idb'))
          /\ swLast'.msg.success = Cardinality(SnapshotKeys(r) \ IdbKeys(idb'))]_vars

\* the rows and the stock of the backend are only ever added to and taken from
\* by the replays: nothing undoes a write
NothingRolledBack ==
    /\ \A e \in Ids : sales'[e] >= sales[e]
    /\ \A p \in Products : stock'[p] <= stock[p]

\* C25: when a stock update fails after createSale has succeeded, the sale
\* row stays, the stock updates that went through stay applied, the replay
\* counts as a success, and no later step undoes any of it
C25_NoRollbackAfterSaleCreated ==
    [][/\ NothingRolledBack
       /\ \A s \in DOMAIN drains : \A c \in CallResults :
             (/\ ReplayAtBackend(s, c)
              /\ drains[s].snap[drains[s].i].type = "sale"
              /\ CreateSaleSucceeds(c)
              /\ \E k \in DOMAIN drains[s].snap[drains[s].i].data.items :
                    ~c.inventory[k])
             => LET t == drains[s].snap[drains[s].i]
                IN  /\ sales'[t.id] = sales[t.id] + 1
                    /\ t.id \in succeededIds'
                    /\ \A k \in DOMAIN t.data.items :
                          LET item == t.data.items[k]
                          IN  c.inventory[k] =>
                                 stock'[item.product_id] =
                                    Subtract(stock, item)[item.product_id]
      ]_vars

\* the first entry, a sale, has been replayed with success: its row is in
\* sales, the stock of its first line item is taken, that of its second is not
C25_Witness ==
    /\ 1 \in succeededIds
    /\ sales[1] = 1
    /\ stock["p1"] = InitStock - 1
    /\ stock["p2"] = InitStock

\* C26: an entry is removed as succeeded only after a data-module call that
\* returned {success: true}: a product replay whose call returned
\* {success: false} leaves the entry queued
C26_RemovedOnlyAfterRealSuccess ==
    \A e \in succeededIds : e \in written

\* C29: over all passes the replays of one queued sale insert at most one row
\* into sales
C29_AtMostOneSaleRow ==
    \A e \in Ids : sales[e] <= 1

\* C27: when the worker has answered a write with the 202 'queued' response,
\* the newest entry of the IndexedDB queue is that request: its URL, method,
\* headers and body
C27_QueuedResponseMeansStored ==
    (swLast.op = "fetch" /\ swLast.response = QueuedResponse)
        => /\ Len(idb) > 0
           /\ idb[Len(idb)] = RequestData(idb[Len(idb)].key, swLast.req)

\* C28: an entry whose replay has succeeded is not in the queue again and is
\* never passed to syncTransaction again
C28_ReplayedEntryNeverReturns ==
    /\ \A e \in succeededIds : e \notin QueueIds(queuedTransactions)
    /\ \A s \in ActiveDrains :
          drains[s].snap[drains[s].i].id \notin succeededIds

\* C30: with two tabs open, an entry that either tab has queued and saved is
\* in localStorage until it has been replayed or evicted: no saveQueue of the
\* other tab erases it
C30_OtherTabKeepsStoredEntries ==
    \A e \in Enqueued \ (succeededIds \cup evictedIds) :
       e \in QueueIds(LoadQueue(storage))

=============================================================================
